---- MODULE Spec2Model ----
(***************************************************************************)
(* Mini-Redis (solutions/mini_redis): RESP framer and encoder, command     *)
(* executor, two-tier key expiry and the per-connection session loop.      *)
(*                                                                         *)
(* Representation.  A byte string and a Python str are both sequences of   *)
(* one-element strings.  An ASCII byte and the character it decodes to     *)
(* share a token ("G", "\r", "5").  "xC3" and "xA9" are the two bytes of   *)
(* the UTF-8 encoding of the character "U+00E9"; "xFF" is a byte that      *)
(* never occurs in valid UTF-8.  A token of several ASCII characters       *)
(* (an error message text) stands for that run of characters or bytes.     *)
(* None is <<>> and a present optional value x is <<x>>.                   *)
(* Time is counted in ticks of 1/TicksPerSec second.                       *)
(***************************************************************************)
EXTENDS Integers, Sequences, FiniteSets, TLC

\* ------------------------------------------------------------------ bounds
\* clock resolution: ticks per second
TicksPerSec == 3
\* the clock stops advancing at this many ticks
MaxTime == 4
\* frames a client sends on one connection
MaxCmds == 4
WireCmds == 2
\* calls of start() and stop() on the expiry engine, commands sent meanwhile
MaxCalls == 4
\* calls of start() and stop() when a start() may overlap a suspended stop()
OverlapCalls == 3
LifeCmds == 2
ArgCmds == 3
InputCmds == 2
\* frames of two connections, of which one fails, together
SharedCmds == 3
\* frames of a client that reads a store of two keys
ReadCmds == 2
\* INCR commands of the two connections together
IncrCmds == 4
\* words of a command when the codec is exercised
CodecArgs == 2
\* the largest int that float() converts: sys.float_info.max in the program,
\* here on the scale of the numbers the clients send
FloatMax == 9999
\* 2^63 - 1, the largest number an Integer reply holds, brought down to the
\* scale of the values the stores here hold (Python's int has no bound)
Int64Max == 99
\* keys in the store when the sweeper wakes
MaxKeys == 21

\* ------------------------------------------------------- program constants
ACTIVE_EXPIRY_SAMPLE_SIZE == 20
ACTIVE_EXPIRY_THRESHOLD_PERCENT == 25
\* asyncio.sleep(1) in _run_active_expiry
SLEEP_SECONDS == 1

\* ---------------------------------------------------------------- options
None == <<>>
Some(x) == <<x>>
IsNone(o) == o = <<>>
The(o) == o[1]

\* ------------------------------------------------------ Python int and str
CR == "\r"
LF == "\n"
CRLF == <<CR, LF>>
Digits == {"0", "1", "2", "3", "4", "5", "6", "7", "8", "9"}
Whitespace == {" ", "\t", "\n", "\r"}

DigitVal(c) ==
    CASE c = "0" -> 0 [] c = "1" -> 1 [] c = "2" -> 2 [] c = "3" -> 3
      [] c = "4" -> 4 [] c = "5" -> 5 [] c = "6" -> 6 [] c = "7" -> 7
      [] c = "8" -> 8 [] c = "9" -> 9

DigitChar(n) ==
    CASE n = 0 -> "0" [] n = 1 -> "1" [] n = 2 -> "2" [] n = 3 -> "3"
      [] n = 4 -> "4" [] n = 5 -> "5" [] n = 6 -> "6" [] n = 7 -> "7"
      [] n = 8 -> "8" [] n = 9 -> "9"

RECURSIVE LStrip(_)
LStrip(s) == IF s # <<>> /\ Head(s) \in Whitespace THEN LStrip(Tail(s)) ELSE s

RECURSIVE RStrip(_)
RStrip(s) ==
    IF s # <<>> /\ s[Len(s)] \in Whitespace
    THEN RStrip(SubSeq(s, 1, Len(s) - 1))
    ELSE s

RECURSIVE DigitsVal(_)
DigitsVal(s) ==
    IF s = <<>> THEN 0
    ELSE DigitsVal(SubSeq(s, 1, Len(s) - 1)) * 10 + DigitVal(s[Len(s)])

IsDigit(c) == c \in Digits
NotUnderscore(c) == c # "_"

\* Python int(x) of a str or bytes: surrounding whitespace is stripped, one
\* sign is allowed, single underscores may separate digits.  ok = FALSE is
\* ValueError.
PyInt(s) ==
    LET t == RStrip(LStrip(s))
        signed == t # <<>> /\ Head(t) \in {"+", "-"}
        body == IF signed THEN Tail(t) ELSE t
        digits == SelectSeq(body, NotUnderscore)
        grouped == /\ body # <<>>
                   /\ body[1] # "_"
                   /\ body[Len(body)] # "_"
                   /\ \A i \in 1..(Len(body) - 1) :
                        ~(body[i] = "_" /\ body[i + 1] = "_")
        ok == /\ grouped
              /\ digits # <<>>
              /\ \A i \in 1..Len(digits) : IsDigit(digits[i])
    IN  IF ok
        THEN [ok |-> TRUE,
              val |-> IF Head(t) = "-" THEN 0 - DigitsVal(digits)
                      ELSE DigitsVal(digits)]
        ELSE [ok |-> FALSE, val |-> 0]

RECURSIVE NatStr(_)
NatStr(n) ==
    IF n < 10 THEN <<DigitChar(n)>>
    ELSE NatStr(n \div 10) \o <<DigitChar(n % 10)>>

\* Python str(n) of an int
PyStr(n) == IF n < 0 THEN <<"-">> \o NatStr(0 - n) ELSE NatStr(n)

\* Python int(x) of a float: truncation toward zero; x = a / b with b > 0
TruncDiv(a, b) == IF a >= 0 THEN a \div b ELSE 0 - ((0 - a) \div b)

Max(a, b) == IF a >= b THEN a ELSE b
Min(a, b) == IF a <= b THEN a ELSE b

\* a command name compared as it was received
UpperChar_unchanged(c) == c

UpperChar(c) ==
    CASE c = "a" -> "A" [] c = "b" -> "B" [] c = "c" -> "C" [] c = "d" -> "D"
      [] c = "e" -> "E" [] c = "f" -> "F" [] c = "g" -> "G" [] c = "h" -> "H"
      [] c = "i" -> "I" [] c = "j" -> "J" [] c = "k" -> "K" [] c = "l" -> "L"
      [] c = "m" -> "M" [] c = "n" -> "N" [] c = "o" -> "O" [] c = "p" -> "P"
      [] c = "q" -> "Q" [] c = "r" -> "R" [] c = "s" -> "S" [] c = "t" -> "T"
      [] c = "u" -> "U" [] c = "v" -> "V" [] c = "w" -> "W" [] c = "x" -> "X"
      [] c = "y" -> "Y" [] c = "z" -> "Z" [] c = "U+00E9" -> "U+00C9"
      [] OTHER -> c

\* str.upper()
Upper(s) == [i \in 1..Len(s) |-> UpperChar(s[i])]

\* -------------------------------------------------------------- UTF-8
RECURSIVE Utf8Encode(_)
Utf8Encode(s) ==
    IF s = <<>> THEN <<>>
    ELSE (IF Head(s) = "U+00E9" THEN <<"xC3", "xA9">>
          ELSE IF Head(s) = "U+00C9" THEN <<"xC3", "x89">>
          ELSE <<Head(s)>>)
         \o Utf8Encode(Tail(s))

HighBytes == {"xC3", "xA9", "xFF"}

\* bytes.decode('utf-8'): ok = FALSE is UnicodeDecodeError
RECURSIVE Utf8Decode(_)
Utf8Decode(b) ==
    IF b = <<>> THEN [ok |-> TRUE, s |-> <<>>]
    ELSE IF Head(b) \notin HighBytes
    THEN LET r == Utf8Decode(Tail(b))
         IN  [ok |-> r.ok, s |-> <<Head(b)>> \o r.s]
    ELSE IF Head(b) = "xC3" /\ Len(b) >= 2 /\ b[2] = "xA9"
    THEN LET r == Utf8Decode(SubSeq(b, 3, Len(b)))
         IN  [ok |-> r.ok, s |-> <<"U+00E9">> \o r.s]
    ELSE [ok |-> FALSE, s |-> <<>>]

\* ------------------------------------------------------------- encoder
encode_simple_string(value) == <<"+">> \o Utf8Encode(value) \o CRLF

encode_error(message) == <<"-">> \o Utf8Encode(message) \o CRLF

encode_integer(value) == <<":">> \o PyStr(value) \o CRLF

\* encode_bulk_string with the length in characters
encode_bulk_string_chars(value) ==
    IF IsNone(value) THEN <<"$", "-", "1", CR, LF>>
    ELSE LET data == Utf8Encode(The(value))
         IN  <<"$">> \o PyStr(Len(The(value))) \o CRLF \o data \o CRLF

\* value is an optional str
encode_bulk_string(value) ==
    IF IsNone(value) THEN <<"$", "-", "1", CR, LF>>
    ELSE LET data == Utf8Encode(The(value))
         IN  <<"$">> \o PyStr(Len(data)) \o CRLF \o data \o CRLF

\* ---------------------------------------------------------------- store
\* DataStore._data: a function from the present keys to StoreEntry
StoreEntry(value, expiry_at) == [value |-> value, expiry_at |-> expiry_at]

StoreGetExpiry(d, key) == IF key \in DOMAIN d THEN d[key].expiry_at ELSE None

StoreGet(d, key) == IF key \in DOMAIN d THEN Some(d[key].value) ELSE None

\* DataStore.set editing the entry in place: the deadline survives
StoreSet_keeps_expiry(d, key, value) ==
    [x \in (DOMAIN d) \cup {key} |->
        IF x = key THEN StoreEntry(value, StoreGetExpiry(d, key)) ELSE d[x]]

StoreSet(d, key, value) ==
    [x \in (DOMAIN d) \cup {key} |->
        IF x = key THEN StoreEntry(value, None) ELSE d[x]]

StoreDelete(d, key) == [x \in (DOMAIN d) \ {key} |-> d[x]]

StoreExists(d, key) == key \in DOMAIN d

StoreSetExpiry(d, key, expiry_at) ==
    IF key \in DOMAIN d
    THEN [d EXCEPT ![key].expiry_at = Some(expiry_at)]
    ELSE d

\* what a call of DataStore.set_expiry evaluates to, as Python writes it:
\* the method has no return statement
StoreSetExpiryReturn(d, key, expiry_at) == "None"

StoreGetAllKeys(d) == DOMAIN d

\* --------------------------------------------------------------- expiry
\* int(time.time()) as a number of ticks: the whole seconds of instant t
IntTime(t) == (t \div TicksPerSec) * TicksPerSec

\* check_and_remove_expired with the comparison turned around
CheckAndRemoveExpired_inverted(d, key, t) ==
    LET expiry_time == StoreGetExpiry(d, key)
    IN  IF IsNone(expiry_time) THEN [data |-> d, removed |-> FALSE]
        ELSE IF IntTime(t) <= The(expiry_time)
        THEN [data |-> StoreDelete(d, key), removed |-> TRUE]
        ELSE [data |-> d, removed |-> FALSE]

\* check_and_remove_expired that deletes nothing
CheckAndRemoveExpired_keeps(d, key, t) == [data |-> d, removed |-> FALSE]

\* check_and_remove_expired taking a missing deadline for one that has passed
CheckAndRemoveExpired_none_is_past(d, key, t) ==
    LET expiry_time == StoreGetExpiry(d, key)
    IN  IF key \notin DOMAIN d THEN [data |-> d, removed |-> FALSE]
        ELSE IF IsNone(expiry_time) \/ IntTime(t) >= The(expiry_time)
        THEN [data |-> StoreDelete(d, key), removed |-> TRUE]
        ELSE [data |-> d, removed |-> FALSE]

\* ExpiryManager.check_and_remove_expired at clock reading t
CheckAndRemoveExpired(d, key, t) ==
    LET expiry_time == StoreGetExpiry(d, key)
    IN  IF IsNone(expiry_time) THEN [data |-> d, removed |-> FALSE]
        ELSE IF IntTime(t) >= The(expiry_time)
        THEN [data |-> StoreDelete(d, key), removed |-> TRUE]
        ELSE [data |-> d, removed |-> FALSE]

\* ------------------------------------------------------------- executor
\* What CommandHandler.execute returns or raises
RStr(s) == [t |-> "str", s |-> s]
RInt(n) == [t |-> "int", n |-> n]
RNone == [t |-> "none"]
RCommandError(msg) == [t |-> "CommandError", msg |-> msg]
\* any other exception that leaves execute
RRaised(exc) == [t |-> "Exception", exc |-> exc]

PING == <<"P", "I", "N", "G">>
GET == <<"G", "E", "T">>
SET == <<"S", "E", "T">>
INCR == <<"I", "N", "C", "R">>
EXPIRE == <<"E", "X", "P", "I", "R", "E">>
TTL == <<"T", "T", "L">>

ErrNotInteger == <<"ERR value is not an integer or out of range">>

\* Every execute_* takes the store d and the clock readings of the command:
\* t1 is read by check_and_remove_expired, t2 >= t1 by the command itself.
execute_ping == "PONG"

\* execute_get giving the passive check to every key of the store
execute_get_sweeps(d, key, t1) ==
    LET kept == {x \in DOMAIN d :
                    IsNone(d[x].expiry_at) \/ IntTime(t1) < The(d[x].expiry_at)}
        swept == [x \in kept |-> d[x]]
        v == StoreGet(swept, key)
    IN  [data |-> swept, res |-> IF IsNone(v) THEN RNone ELSE RStr(The(v))]

execute_get(d, key, t1) ==
    LET c == CheckAndRemoveExpired(d, key, t1)
        v == StoreGet(c.data, key)
    IN  [data |-> c.data, res |-> IF IsNone(v) THEN RNone ELSE RStr(The(v))]

execute_set(d, key, value) ==
    [data |-> StoreSet(d, key, value), res |-> RStr(<<"OK">>)]

\* execute_incr that replies the new value and does not store it
execute_incr_forgets(d, key, t1) ==
    LET c == CheckAndRemoveExpired(d, key, t1)
        current_value == StoreGet(c.data, key)
        int_value == PyInt(The(current_value))
    IN  IF IsNone(current_value)
        THEN [data |-> StoreSet(c.data, key, <<"1">>), res |-> RInt(1)]
        ELSE IF ~int_value.ok
        THEN [data |-> c.data, res |-> RCommandError(ErrNotInteger)]
        ELSE [data |-> c.data, res |-> RInt(int_value.val + 1)]

\* execute_incr storing the value it read instead of the incremented one
execute_incr_stale(d, key, t1) ==
    LET c == CheckAndRemoveExpired(d, key, t1)
        current_value == StoreGet(c.data, key)
        int_value == PyInt(The(current_value))
    IN  IF IsNone(current_value)
        THEN [data |-> StoreSet(c.data, key, <<"1">>), res |-> RInt(1)]
        ELSE IF ~int_value.ok
        THEN [data |-> c.data, res |-> RCommandError(ErrNotInteger)]
        ELSE [data |-> StoreSet(c.data, key, PyStr(int_value.val)),
              res |-> RInt(int_value.val + 1)]

execute_incr(d, key, t1) ==
    LET c == CheckAndRemoveExpired(d, key, t1)
        current_value == StoreGet(c.data, key)
        int_value == PyInt(The(current_value))
    IN  IF IsNone(current_value)
        THEN [data |-> StoreSet(c.data, key, <<"1">>), res |-> RInt(1)]
        ELSE IF ~int_value.ok
        THEN [data |-> c.data, res |-> RCommandError(ErrNotInteger)]
        ELSE [data |-> StoreSet(c.data, key, PyStr(int_value.val + 1)),
              res |-> RInt(int_value.val + 1)]

\* execute_expire without the test that the key exists
execute_expire_unchecked(d, key, seconds, t1, t2) ==
    LET c == CheckAndRemoveExpired(d, key, t1)
    IN  [data |-> StoreSetExpiry(c.data, key, t2 + seconds * TicksPerSec),
         res |-> RInt(1)]

\* time.time() + seconds converts seconds to float: OverflowError ("int too
\* large to convert to float") beyond the largest float
execute_expire(d, key, seconds, t1, t2) ==
    LET c == CheckAndRemoveExpired(d, key, t1)
    IN  IF ~StoreExists(c.data, key)
        THEN [data |-> c.data, res |-> RInt(0)]
        ELSE IF seconds > FloatMax \/ seconds < 0 - FloatMax
        THEN [data |-> c.data, res |-> RRaised("OverflowError")]
        ELSE [data |-> StoreSetExpiry(c.data, key, t2 + seconds * TicksPerSec),
              res |-> RInt(1)]

\* execute_ttl with the replies -1 and -2 taken for each other
execute_ttl_swapped(d, key, t1, t2) ==
    LET c == CheckAndRemoveExpired(d, key, t1)
        expiry_at == StoreGetExpiry(c.data, key)
    IN  IF ~StoreExists(c.data, key)
        THEN [data |-> c.data, res |-> RInt(0 - 1)]
        ELSE IF IsNone(expiry_at)
        THEN [data |-> c.data, res |-> RInt(0 - 2)]
        ELSE [data |-> c.data,
              res |-> RInt(Max(0, TruncDiv(The(expiry_at) - t2, TicksPerSec)))]

\* execute_ttl with expiry_at + time.time() for expiry_at - time.time()
execute_ttl_plus(d, key, t1, t2) ==
    LET c == CheckAndRemoveExpired(d, key, t1)
        expiry_at == StoreGetExpiry(c.data, key)
    IN  IF ~StoreExists(c.data, key)
        THEN [data |-> c.data, res |-> RInt(0 - 2)]
        ELSE IF IsNone(expiry_at)
        THEN [data |-> c.data, res |-> RInt(0 - 1)]
        ELSE [data |-> c.data,
              res |-> RInt(Max(0, TruncDiv(The(expiry_at) + t2, TicksPerSec)))]

execute_ttl(d, key, t1, t2) ==
    LET c == CheckAndRemoveExpired(d, key, t1)
        expiry_at == StoreGetExpiry(c.data, key)
    IN  IF ~StoreExists(c.data, key)
        THEN [data |-> c.data, res |-> RInt(0 - 2)]
        ELSE IF IsNone(expiry_at)
        THEN [data |-> c.data, res |-> RInt(0 - 1)]
        ELSE [data |-> c.data,
              res |-> RInt(Max(0, TruncDiv(The(expiry_at) - t2, TicksPerSec)))]

WrongArgs(name) ==
    RCommandError(<<"ERR wrong number of arguments for '", name, "' command">>)

\* execute with the seconds of EXPIRE parsed after the passive check of the key
execute_parses_late(d, command, t1, t2) ==
    IF command = <<>>
    THEN [data |-> d, res |-> RCommandError(<<"ERR empty command">>)]
    ELSE
    LET cmd_name == Upper(command[1])
        args == Tail(command)
    IN  IF cmd_name = PING
        THEN IF Len(args) # 0
             THEN [data |-> d, res |-> WrongArgs("ping")]
             ELSE [data |-> d, res |-> RStr(<<execute_ping>>)]
        ELSE IF cmd_name = GET
        THEN IF Len(args) # 1
             THEN [data |-> d, res |-> WrongArgs("get")]
             ELSE execute_get(d, args[1], t1)
        ELSE IF cmd_name = SET
        THEN IF Len(args) # 2
             THEN [data |-> d, res |-> WrongArgs("set")]
             ELSE execute_set(d, args[1], args[2])
        ELSE IF cmd_name = INCR
        THEN IF Len(args) # 1
             THEN [data |-> d, res |-> WrongArgs("incr")]
             ELSE execute_incr(d, args[1], t1)
        ELSE IF cmd_name = EXPIRE
        THEN IF Len(args) # 2
             THEN [data |-> d, res |-> WrongArgs("expire")]
             ELSE IF ~PyInt(args[2]).ok
             THEN [data |-> CheckAndRemoveExpired(d, args[1], t1).data,
                   res |-> RCommandError(ErrNotInteger)]
             ELSE execute_expire(d, args[1], PyInt(args[2]).val, t1, t2)
        ELSE IF cmd_name = TTL
        THEN IF Len(args) # 1
             THEN [data |-> d, res |-> WrongArgs("ttl")]
             ELSE execute_ttl(d, args[1], t1, t2)
        ELSE [data |-> d,
              res |-> RCommandError(<<"ERR unknown command '">> \o cmd_name
                                    \o <<"'">>)]

\* CommandHandler.execute
execute(d, command, t1, t2) ==
    IF command = <<>>
    THEN [data |-> d, res |-> RCommandError(<<"ERR empty command">>)]
    ELSE
    LET cmd_name == Upper(command[1])
        args == Tail(command)
    IN  IF cmd_name = PING
        THEN IF Len(args) # 0
             THEN [data |-> d, res |-> WrongArgs("ping")]
             ELSE [data |-> d, res |-> RStr(<<execute_ping>>)]
        ELSE IF cmd_name = GET
        THEN IF Len(args) # 1
             THEN [data |-> d, res |-> WrongArgs("get")]
             ELSE execute_get(d, args[1], t1)
        ELSE IF cmd_name = SET
        THEN IF Len(args) # 2
             THEN [data |-> d, res |-> WrongArgs("set")]
             ELSE execute_set(d, args[1], args[2])
        ELSE IF cmd_name = INCR
        THEN IF Len(args) # 1
             THEN [data |-> d, res |-> WrongArgs("incr")]
             ELSE execute_incr(d, args[1], t1)
        ELSE IF cmd_name = EXPIRE
        THEN IF Len(args) # 2
             THEN [data |-> d, res |-> WrongArgs("expire")]
             ELSE IF ~PyInt(args[2]).ok
             THEN [data |-> d, res |-> RCommandError(ErrNotInteger)]
             ELSE execute_expire(d, args[1], PyInt(args[2]).val, t1, t2)
        ELSE IF cmd_name = TTL
        THEN IF Len(args) # 1
             THEN [data |-> d, res |-> WrongArgs("ttl")]
             ELSE execute_ttl(d, args[1], t1, t2)
        ELSE [data |-> d,
              res |-> RCommandError(<<"ERR unknown command '">> \o cmd_name
                                    \o <<"'">>)]

\* handle with the CommandError falling through to the last encoder
EncodeResult_error_as_null(res) ==
    IF res.t = "str" THEN encode_simple_string(res.s)
    ELSE IF res.t = "int" THEN encode_integer(res.n)
    ELSE encode_bulk_string(None)

\* ClientHandler.handle: the bytes written for what execute returned or raised
EncodeResult(res) ==
    IF res.t = "CommandError" THEN encode_error(res.msg)
    ELSE IF res.t = "str" THEN encode_simple_string(res.s)
    ELSE IF res.t = "int" THEN encode_integer(res.n)
    ELSE encode_bulk_string(None)

\* --------------------------------------------------------------- decoder
\* The position of RESPParser.parse_command inside one command: which await
\* it is at (readuntil for the array header, readuntil for a bulk header,
\* readexactly for a bulk payload), the element count, the elements decoded
\* so far and the size asked of readexactly.
ParserStart == [at |-> "array", count |-> 0, result |-> <<>>, want |-> 0]

\* index of the first CR LF in b, 0 if there is none
FindCRLF(b) ==
    LET hits == {i \in 1..(Len(b) - 1) : b[i] = CR /\ b[i + 1] = LF}
    IN  IF hits = {} THEN 0 ELSE CHOOSE i \in hits : \A j \in hits : i <= j

\* a decoder that starts over at the array header when it has to wait
Blocked_starts_over(b, st) ==
    [kind |-> "blocked", buf |-> b, st |-> ParserStart, cmd |-> <<>>]

Blocked(b, st) == [kind |-> "blocked", buf |-> b, st |-> st, cmd |-> <<>>]
\* a decoder that at the end of the stream hands over the elements it has
\* decoded so far as the command
Raised_runs_partial(exc, b, st) ==
    IF exc = "IncompleteReadError" /\ st.result # <<>>
    THEN [kind |-> "command", buf |-> <<>>,
          st |-> [at |-> "array", count |-> 0, result |-> <<>>, want |-> 0],
          cmd |-> st.result]
    ELSE [kind |-> exc, buf |-> b, st |-> st, cmd |-> <<>>]

Raised(exc, b, st) == [kind |-> exc, buf |-> b, st |-> st, cmd |-> <<>>]
Parsed(cmd, b) == [kind |-> "command", buf |-> b, st |-> ParserStart, cmd |-> cmd]

\* parse_command and _parse_bulk_string run on the reader's buffer b (eof:
\* feed_eof was called) from position st until the command is complete, an
\* exception is raised, or an await finds too few bytes and suspends.
RECURSIVE ParseRun(_, _, _)
ParseRun(b, eof, st) ==
    IF st.at \in {"array", "bulk"}
    THEN LET i == FindCRLF(b)
             line == SubSeq(b, 1, i - 1)
             rest == SubSeq(b, i + 2, Len(b))
             n == PyInt(Tail(line))
         IN  IF i = 0
             THEN IF eof THEN Raised("IncompleteReadError", b, st)
                  ELSE Blocked(b, st)
             ELSE IF st.at = "array"
             THEN IF line = <<>> \/ Head(line) # "*"
                  THEN Raised("RESPProtocolError", rest, st)
                  ELSE IF ~n.ok THEN Raised("RESPProtocolError", rest, st)
                  ELSE IF n.val <= 0 THEN Parsed(<<>>, rest)
                  ELSE ParseRun(rest, eof,
                                [at |-> "bulk", count |-> n.val,
                                 result |-> <<>>, want |-> 0])
             ELSE IF line = <<>> \/ Head(line) # "$"
                  THEN Raised("RESPProtocolError", rest, st)
                  ELSE IF ~n.ok THEN Raised("RESPProtocolError", rest, st)
                  ELSE IF n.val = 0 - 1 THEN Raised("RESPProtocolError", rest, st)
                  ELSE IF n.val + 2 < 0 THEN Raised("ValueError", rest, st)
                  ELSE ParseRun(rest, eof,
                                [st EXCEPT !.at = "exact", !.want = n.val + 2])
    ELSE IF Len(b) < st.want
         THEN IF eof THEN Raised("IncompleteReadError", b, st)
              ELSE Blocked(b, st)
         ELSE LET data == SubSeq(b, 1, st.want)
                  rest == SubSeq(b, st.want + 1, Len(b))
                  text == Utf8Decode(SubSeq(data, 1, st.want - 2))
                  result == Append(st.result, text.s)
              IN  IF st.want < 2 \/ SubSeq(data, st.want - 1, st.want) # CRLF
                  THEN Raised("RESPProtocolError", rest, st)
                  ELSE IF ~text.ok THEN Raised("UnicodeDecodeError", rest, st)
                  ELSE IF Len(result) = st.count THEN Parsed(result, rest)
                  ELSE ParseRun(rest, eof,
                                [st EXCEPT !.at = "bulk", !.result = result,
                                           !.want = 0])

\* RESPParser.encode_array of bulk strings: the frame a client sends for cmd
RECURSIVE EncodeItems(_)
EncodeItems(items) ==
    IF items = <<>> THEN <<>>
    ELSE encode_bulk_string(Some(Head(items))) \o EncodeItems(Tail(items))

encode_array(items) == <<"*">> \o PyStr(Len(items)) \o CRLF \o EncodeItems(items)

\* ------------------------------------------------------------ environment
\* the connections a server may hold; env.conns are those of a run
Conns == {"c1", "c2"}

\* A frame a client may send: its bytes, and the command it carries when it
\* follows the grammar (ok).
Frame(cmd) == [bytes |-> encode_array(cmd), ok |-> TRUE, cmd |-> cmd]
Malformed(bytes) == [bytes |-> bytes, ok |-> FALSE, cmd |-> <<>>]

K == <<"k">>

StoreFrames ==
    { Frame(<<SET, K, <<"9">>>>),
      Frame(<<GET, K>>), Frame(<<INCR, K>>), Frame(<<TTL, K>>),
      Frame(<<EXPIRE, K, <<"0">>>>), Frame(<<EXPIRE, K, <<"1">>>>) }

ArgFrames ==
    { Frame(<<PING>>), Frame(<<PING, <<"x">>>>), Frame(<<PING, <<"x">>, <<"y">>>>),
      Frame(<<INCR, K>>),
      Frame(<<EXPIRE, K, <<"1">>>>), Frame(<<EXPIRE, K, <<"-", "1">>>>) }

\* Every array of up to CodecArgs strings: the empty string, a two-byte
\* character, and bytes that read as the end of a header.
CodecStrings == { <<>>, <<"U+00E9">>, <<"$", CR, LF>> }

CodecFrames ==
    { Frame(cmd) : cmd \in UNION {[1..n -> CodecStrings] : n \in 0..CodecArgs} }

\* the bytes of the frames q, one after the other
RECURSIVE FramesBytes(_)
FramesBytes(q) ==
    IF q = <<>> THEN <<>> ELSE encode_array(Head(q).cmd) \o FramesBytes(Tail(q))

\* command names in other cases, an unknown name, a key in another case
NameFrames ==
    { Frame(<<<<"g", "e", "t">>, K>>), Frame(<<GET, <<"K">>>>),
      Frame(<<<<"S", "e", "t">>, <<"K">>, <<"9">>>>),
      Frame(<<<<"f", "o", "o">>>>), Frame(<<<<"F", "o", "o">>, K>>) }

\* numbers beyond every range, and the command of no words
HugeFrames ==
    { Frame(<<EXPIRE, K, <<"9", "9", "9", "9", "9">>>>),
      Frame(<<EXPIRE, K, <<"-", "9", "9", "9", "9", "9">>>>),
      Frame(<<>>) }

\* negative array counts and negative bulk lengths
NegFrames ==
    { Malformed(<<"*", "-", "1", CR, LF>>),
      Malformed(<<"*", "-", "2", CR, LF>>),
      Malformed(<<"*", "1", CR, LF, "$", "-", "1", CR, LF>>),
      Malformed(<<"*", "1", CR, LF, "$", "-", "2", CR, LF>>),
      Malformed(<<"*", "1", CR, LF, "$", "-", "3", CR, LF>>) }

\* too few and too many arguments, seconds that are no number
ArityFrames ==
    { Frame(<<PING, <<"x">>, <<"y">>>>),
      Frame(<<GET>>), Frame(<<GET, K, <<"x">>>>),
      Frame(<<SET, K>>), Frame(<<INCR>>),
      Frame(<<EXPIRE, K>>), Frame(<<TTL, K, <<"x">>>>),
      Frame(<<EXPIRE, K, <<"a", "b", "c">>>>) }

InputFrames ==
    NameFrames \cup HugeFrames \cup NegFrames \cup ArityFrames
        \cup {Frame(<<INCR, K>>)}

LifeFrames == { Frame(<<INCR, K>>), Frame(<<EXPIRE, K, <<"0">>>>) }

WireFrames ==
    { Frame(<<PING>>), Frame(<<GET, K>>), Frame(<<INCR, K>>),
      Frame(<<SET, K, <<>>>>), Frame(<<SET, K, <<"a", CR, LF, "U+00E9">>>>),
      Frame(<<<<"F", "O", "O">>>>),
      Malformed(<<"+", "O", "K", CR, LF>>),
      Malformed(<<"*", "x", CR, LF>>),
      Malformed(<<"*", "1", CR, LF, ":", "1", CR, LF>>),
      Malformed(<<"*", "1", CR, LF, "$", "x", CR, LF>>),
      Malformed(<<"*", "1", CR, LF, "$", "1", CR, LF, "a", "b", CR, LF>>),
      Malformed(<<"*", "1", CR, LF, "$", "1", CR, LF, "xFF", CR, LF>>) }

VARIABLES
    env,     \* what the clients and the clock may do in this run
    now,     \* time.time(), in ticks
    data,    \* DataStore._data
    expiry,  \* ExpiryManager: _running, the background task and its locals
    net,     \* per connection, the client's side: bytes in flight, frames owed
    sess,    \* per connection, the ClientHandler.handle task and its streams
    hist     \* per key, what the commands executed so far have established

vars == <<env, now, data, expiry, net, sess, hist>>

Keys == {K}

NetInit ==
    [c \in Conns |-> [pending |-> <<>>, eof |-> FALSE, nSent |-> 0, queue |-> <<>>]]

SessInit ==
    [c \in Conns |->
        [task |-> "read", buf |-> <<>>, eof |-> FALSE, rd |-> ParserStart,
         wbuf |-> <<>>, closed |-> FALSE, awaited |-> FALSE, end |-> "",
         exc |-> "",
         nExec |-> 0, nWritten |-> 0, nFlushed |-> 0, nErr |-> 0,
         lastCmd |-> <<>>, lastRes |-> RNone, lastReply |-> <<>>,
         lastFrame |-> Frame(<<>>)]]

\* handle: _task is not None; tasks: background tasks created and not ended;
\* call: the last start() or stop() and how far it got; nCalls: their number;
\* stale: the task a suspended stop() awaits once a later start() has put a
\* new task in its place ("alive" until it takes its CancelledError, "done")
ExpiryInit ==
    [running |-> FALSE, task |-> "none", wake |-> 0, sampled |-> {},
     sample_size |-> 0, deleted_count |-> 0, began |-> 0, passes |-> 0,
     handle |-> FALSE, tasks |-> 0, call |-> "", nCalls |-> 0,
     stale |-> "none"]

HistInit ==
    [k \in Keys |-> [setNoExpire |-> FALSE, ttlLive |-> None,
                     absentEver |-> FALSE, absentNoIncr |-> FALSE, run |-> 0,
                     zeroed |-> FALSE]]

InitState ==
    /\ now = 0
    /\ data = <<>>
    /\ expiry = ExpiryInit
    /\ net = NetInit
    /\ sess = SessInit
    /\ hist = HistInit

\* commands in order, each frame delivered whole, the clock runs
Init ==
    /\ env = [frames |-> StoreFrames, split |-> FALSE, depth |-> 1,
              maxTime |-> MaxTime, maxCmds |-> MaxCmds,
              lifecycle |-> FALSE, maxCalls |-> 1, ordered |-> FALSE, forever |-> FALSE, conns |-> {"c1"}]
    /\ InitState

\* ----------------------------------------------------------- observations
CmdIs(cmd, name, n) == Len(cmd) = n /\ Upper(cmd[1]) = name

\* hist after cmd ran on store d and returned or raised res.  Per key k:
\*   setNoExpire  a SET k ran and no EXPIRE k ran since
\*   ttlLive      the least reply >= -1 of the TTL k since the last SET k or
\*                EXPIRE k; absentEver: one of them replied -2;
\*                absentNoIncr: one replied -2 and no INCR k ran since
\*   run          n > 0: k was absent, then n INCR k ran and no other
\*                command on k
\*   zeroed       the last command on k was an EXPIRE k 0 that replied 1
HistAfter(h, d, cmd, res) ==
    [k \in Keys |->
        LET on == Len(cmd) >= 2 /\ cmd[2] = k
            isSet == on /\ CmdIs(cmd, SET, 3)
            isExpire == on /\ CmdIs(cmd, EXPIRE, 3) /\ PyInt(cmd[3]).ok
            isTtl == on /\ CmdIs(cmd, TTL, 2)
            isIncr == on /\ CmdIs(cmd, INCR, 2)
            isGet == on /\ CmdIs(cmd, GET, 2)
            reset == isSet \/ isExpire
        IN  [setNoExpire |-> IF isSet THEN TRUE
                             ELSE IF isExpire THEN FALSE
                             ELSE h[k].setNoExpire,
             ttlLive |-> IF reset THEN None
                         ELSE IF isTtl /\ res.n >= 0 - 1
                         THEN IF IsNone(h[k].ttlLive) THEN Some(res.n)
                              ELSE Some(Min(The(h[k].ttlLive), res.n))
                         ELSE h[k].ttlLive,
             absentEver |-> IF reset THEN FALSE
                            ELSE IF isTtl /\ res.n = 0 - 2 THEN TRUE
                            ELSE h[k].absentEver,
             absentNoIncr |-> IF reset \/ isIncr THEN FALSE
                              ELSE IF isTtl /\ res.n = 0 - 2 THEN TRUE
                              ELSE h[k].absentNoIncr,
             run |-> IF isIncr
                     THEN IF k \notin DOMAIN d THEN 1
                          ELSE IF h[k].run > 0 THEN h[k].run + 1
                          ELSE 0
                     ELSE IF reset \/ isGet \/ isTtl THEN 0
                     ELSE h[k].run,
             zeroed |-> IF on
                        THEN isExpire /\ PyInt(cmd[3]).val = 0 /\ res = RInt(1)
                        ELSE h[k].zeroed]]

\* ---------------------------------------------------------------- clients
\* The client writes one more frame to its socket (env.maxCmds frames are
\* sent in a run, over all connections).
ClientSend(c, f) ==
    /\ c \in env.conns
    /\ f \in env.frames
    /\ ~net[c].eof
    /\ ~sess[c].closed
    /\ net["c1"].nSent + net["c2"].nSent < env.maxCmds
    /\ Len(net[c].queue) < env.depth
    /\ net' = [net EXCEPT ![c].pending = @ \o f.bytes,
                          ![c].nSent = @ + 1,
                          ![c].queue = Append(@, [ok |-> f.ok, cmd |-> f.cmd])]
    /\ UNCHANGED <<env, now, data, expiry, sess, hist>>

\* The client closes its socket: what it has not put on the wire yet is
\* never sent, so the stream may end in the middle of a frame.
ClientClose(c) ==
    /\ c \in env.conns
    /\ ~net[c].eof
    /\ ~sess[c].closed
    /\ net' = [net EXCEPT ![c].eof = TRUE, ![c].pending = <<>>]
    /\ UNCHANGED <<env, now, data, expiry, sess, hist>>

\* StreamReader.feed_data: the next n bytes in flight arrive
Deliver(c, n) ==
    /\ ~sess[c].closed
    /\ n \in 1..Len(net[c].pending)
    /\ (env.split \/ n = Len(net[c].pending))
    /\ sess' = [sess EXCEPT ![c].buf = @ \o SubSeq(net[c].pending, 1, n)]
    /\ net' = [net EXCEPT ![c].pending = SubSeq(@, n + 1, Len(@))]
    /\ UNCHANGED <<env, now, data, expiry, hist>>

\* StreamReader.feed_eof
DeliverEof(c) ==
    /\ ~sess[c].closed
    /\ net[c].eof /\ net[c].pending = <<>>
    /\ ~sess[c].eof
    /\ sess' = [sess EXCEPT ![c].eof = TRUE]
    /\ UNCHANGED <<env, now, data, expiry, net, hist>>

\* ------------------------------------------------------------------ clock
Tick ==
    /\ now < env.maxTime
    /\ now' = now + 1
    /\ UNCHANGED <<env, data, expiry, net, sess, hist>>

\* ---------------------------------------------------------------- session
\* _active_expiry_cycle has no await: no other task runs while it does
InCycle == expiry.task = "cycle"

\* handle without its finally clause
Finally_unclosed(s, why) == [s EXCEPT !.task = "done", !.end = why]

\* ClientHandler.handle, `finally`: writer.close(), then await wait_closed()
Finally(s, why) == [s EXCEPT !.task = "wait_closed", !.closed = TRUE, !.end = why]

\* handle with writer.drain() called and not awaited
Replied_not_awaited(s, cmd, res, frame) ==
    [s EXCEPT !.task = "read",
              !.wbuf = @ \o EncodeResult(res),
              !.nExec = @ + 1,
              !.nWritten = @ + 1,
              !.nErr = IF res.t = "CommandError" THEN @ + 1 ELSE @,
              !.lastCmd = cmd,
              !.lastRes = res,
              !.lastReply = EncodeResult(res),
              !.lastFrame = frame]

\* handle after parse_command returned cmd: execute, encode, writer.write,
\* up to the await of writer.drain(), in both the normal and the
\* `except CommandError` branch
Replied(s, cmd, res, frame) ==
    [s EXCEPT !.task = "drain",
              !.wbuf = @ \o EncodeResult(res),
              !.nExec = @ + 1,
              !.nWritten = @ + 1,
              !.nErr = IF res.t = "CommandError" THEN @ + 1 ELSE @,
              !.lastCmd = cmd,
              !.lastRes = res,
              !.lastReply = EncodeResult(res),
              !.lastFrame = frame]

\* handle when execute raised something that is no CommandError: `except
\* Exception` logs it and breaks, nothing is written
Failed(s, cmd, res, frame) ==
    Finally([s EXCEPT !.nExec = @ + 1,
                      !.lastCmd = cmd,
                      !.lastRes = res,
                      !.lastReply = <<>>,
                      !.lastFrame = frame], res.exc)

\* a handler that answers the error before it breaks
Broke_with_reply(s, exc) ==
    Finally([s EXCEPT !.wbuf = @ \o encode_error(<<"ERR Protocol error">>),
                      !.nWritten = @ + 1], exc)

\* handle after the parser raised exc: every handler of the loop breaks
Broke(s, exc) == Finally(s, exc)

NoFrame == [ok |-> FALSE, cmd |-> <<>>]

\* a session whose end takes the sessions of the other connections with it
Resumed_ends_all(ss, c, s) ==
    [x \in DOMAIN ss |->
        IF x = c THEN s
        ELSE IF s.closed /\ ~ss[x].closed THEN Finally(ss[x], s.end) ELSE ss[x]]

\* The sessions after the handle task of connection c ran up to its next
\* await and is left as s: the reader, the writer and the locals it changed
\* are its own.
Resumed(ss, c, s) == [ss EXCEPT ![c] = s]

\* The session task runs from its await in parse_command: the parser takes
\* what the buffer holds; a complete command is executed (clock readings now
\* and t2) and its reply written.
SessionRead(c, t2) ==
    /\ sess[c].task = "read"
    /\ ~InCycle
    /\ t2 \in {now, now + 1}
    /\ t2 <= env.maxTime
    /\ LET s == sess[c]
           p == ParseRun(s.buf, s.eof, s.rd)
           r == execute(data, p.cmd, now, t2)
           q == net[c].queue
           parsed == [s EXCEPT !.buf = p.buf, !.rd = p.st]
       IN  CASE p.kind = "blocked" ->
                  /\ t2 = now
                  /\ (p.buf # s.buf \/ p.st # s.rd)
                  /\ sess' = [sess EXCEPT ![c] = parsed]
                  /\ UNCHANGED <<now, data, net, hist>>
             [] p.kind = "command" ->
                  /\ now' = t2
                  /\ data' = r.data
                  /\ hist' = HistAfter(hist, data, p.cmd, r.res)
                  /\ sess' = Resumed(sess, c,
                        IF r.res.t = "Exception"
                        THEN Failed(parsed, p.cmd, r.res,
                                    IF q = <<>> THEN NoFrame ELSE Head(q))
                        ELSE Replied(parsed, p.cmd, r.res,
                                     IF q = <<>> THEN NoFrame ELSE Head(q)))
                  /\ net' = [net EXCEPT ![c].queue =
                                IF q = <<>> THEN <<>> ELSE Tail(q)]
             [] OTHER ->
                  /\ t2 = now
                  /\ sess' = Resumed(sess, c, Broke(parsed, p.kind))
                  /\ UNCHANGED <<now, data, net, hist>>
    /\ UNCHANGED <<env, expiry>>

\* await writer.drain() returns: what was written is on the wire
Drained(s) == [s EXCEPT !.task = "read", !.wbuf = <<>>, !.nFlushed = s.nWritten]

SessionDrain(c) ==
    /\ sess[c].task = "drain"
    /\ ~InCycle
    /\ sess' = [sess EXCEPT ![c] = Drained(@)]
    /\ UNCHANGED <<env, now, data, expiry, net, hist>>

\* The task is cancelled while suspended in the loop (awaiting bytes or the
\* flush): `except CancelledError: raise`, then `finally`.
SessionCancel(c) ==
    /\ c \in env.conns
    /\ sess[c].task \in {"read", "drain"}
    /\ ~InCycle
    /\ sess' = [sess EXCEPT ![c] = Finally(@, "CancelledError")]
    /\ UNCHANGED <<env, now, data, expiry, net, hist>>

\* handle with `except CancelledError: break`
Propagated_swallowed(why) == ""

\* The exception that leaves handle after its finally clause: CancelledError
\* is re-raised, every other handler breaks and handle returns.
Propagated(why) == IF why = "CancelledError" THEN "CancelledError" ELSE ""

\* await writer.wait_closed() returns and handle ends
SessionWaitClosed(c) ==
    /\ sess[c].task = "wait_closed"
    /\ ~InCycle
    /\ sess' = [sess EXCEPT ![c].task = "done", ![c].awaited = TRUE,
                            ![c].exc = Propagated(sess[c].end)]
    /\ UNCHANGED <<env, now, data, expiry, net, hist>>

\* ---------------------------------------------------------------- sweeper
\* start() without its test of _running
Start_unguarded(e, t) ==
    [e EXCEPT !.running = TRUE, !.task = "sleep",
              !.wake = t + SLEEP_SECONDS * TicksPerSec,
              !.handle = TRUE, !.tasks = @ + 1,
              !.call = "start", !.nCalls = @ + 1]

\* ExpiryManager.start at time t: RuntimeError when already running, else
\* the flag is set and the background task created (it sleeps first)
Start(e, t) ==
    IF e.running
    THEN [e EXCEPT !.call = "start:RuntimeError", !.nCalls = @ + 1]
    ELSE [e EXCEPT !.running = TRUE, !.task = "sleep",
                   !.wake = t + SLEEP_SECONDS * TicksPerSec,
                   !.handle = TRUE, !.tasks = @ + 1,
                   !.call = "start", !.nCalls = @ + 1]

\* The caller of start() and stop() makes one call at a time, and runs, like
\* every task, between the cycles of the sweeper.
MayCall ==
    /\ expiry.nCalls < env.maxCalls
    /\ expiry.call # "stop:await"
    /\ ~InCycle

\* ExpiryManager.start is called: by TCPServer.start when the server starts
\* (the origin of the clock, before any session runs), or at any time
ExpiryStart ==
    /\ MayCall
    /\ env.lifecycle \/ (now = 0 /\ \A c \in Conns : net[c].nSent = 0)
    /\ expiry' = Start(expiry, now)
    /\ UNCHANGED <<env, now, data, net, sess, hist>>

\* stop() raising when the engine is not running
StopIdle_raises(e) ==
    [e EXCEPT !.call = "stop:RuntimeError", !.nCalls = @ + 1]

\* ExpiryManager.stop when _running is false: returns at once
StopIdle(e) == [e EXCEPT !.call = "stop:noop", !.nCalls = @ + 1]

\* stop() that clears the flag and the handle and lets the task be
StopRunning_no_cancel(e) ==
    [e EXCEPT !.running = FALSE, !.handle = FALSE,
              !.call = "stop", !.nCalls = @ + 1]

\* ExpiryManager.stop when _running is true, up to `await self._task`: the
\* flag is cleared and the task cancelled; a task already done is not awaited
StopRunning(e) ==
    IF e.handle /\ e.task # "none"
    THEN [e EXCEPT !.running = FALSE, !.call = "stop:await", !.nCalls = @ + 1]
    ELSE [e EXCEPT !.running = FALSE, !.handle = FALSE,
                   !.call = "stop", !.nCalls = @ + 1]

\* ExpiryManager.stop is called
ExpiryStop ==
    /\ MayCall
    /\ env.lifecycle
    /\ expiry' = IF expiry.running THEN StopRunning(expiry) ELSE StopIdle(expiry)
    /\ UNCHANGED <<env, now, data, net, sess, hist>>

\* _run_active_expiry gets CancelledError at its sleep, re-raises it and ends
SweepCancelled ==
    /\ expiry.call = "stop:await"
    /\ expiry.task = "sleep"
    /\ expiry' = [expiry EXCEPT !.task = "none", !.tasks = @ - 1]
    /\ UNCHANGED <<env, now, data, net, sess, hist>>

\* stop() resumes from `await self._task`, clears the handle and returns
ExpiryStopReturn ==
    /\ expiry.call = "stop:await"
    /\ expiry.task = "none"
    /\ expiry' = [expiry EXCEPT !.handle = FALSE, !.call = "stop"]
    /\ UNCHANGED <<env, now, data, net, sess, hist>>

\* start() is called by another task while a stop() is suspended in `await
\* self._task`: the flag is false, so the flag is set and a new task created
\* and stored; the task stop() cancelled may not have run yet.
OverlapStart ==
    /\ env.lifecycle
    /\ expiry.nCalls < env.maxCalls
    /\ expiry.call = "stop:await"
    /\ ~InCycle
    /\ expiry' = [Start(expiry, now) EXCEPT
                     !.stale = IF expiry.task = "none" THEN "done" ELSE "alive"]
    /\ UNCHANGED <<env, now, data, net, sess, hist>>

\* the task that stop() cancelled takes its CancelledError and ends
StaleCancelled ==
    /\ expiry.stale = "alive"
    /\ ~InCycle
    /\ expiry' = [expiry EXCEPT !.stale = "done", !.tasks = @ - 1]
    /\ UNCHANGED <<env, now, data, net, sess, hist>>

\* the suspended stop() resumes and runs `self._task = None`
StaleStopReturn ==
    /\ expiry.stale = "done"
    /\ ~InCycle
    /\ expiry' = [expiry EXCEPT !.stale = "none", !.handle = FALSE]
    /\ UNCHANGED <<env, now, data, net, sess, hist>>

\* the subsets of S with m elements
RECURSIVE SubsetsOfSize(_, _)
SubsetsOfSize(S, m) ==
    IF m = 0 THEN {{}}
    ELSE UNION {{T \cup {x} : x \in S \ T} : T \in SubsetsOfSize(S, m - 1)}

\* random.sample(all_keys, sample_size): any sample_size of the keys, that is
\* all of them but any len(all_keys) - sample_size
Samples(keys) ==
    LET sample_size == Min(ACTIVE_EXPIRY_SAMPLE_SIZE, Cardinality(keys))
    IN  {keys \ D : D \in SubsetsOfSize(keys, Cardinality(keys) - sample_size)}

\* One pass of the `while True` of _active_expiry_cycle up to the sampling:
\* the cycle ends on an empty store, else the sample S is to be checked.
\* While the cycle goes on, `began` is the number of keys the store held when
\* it began and `passes` the number of samples it has drawn.
Iteration(e, d, S, t) ==
    IF StoreGetAllKeys(d) = {}
    THEN [e EXCEPT !.task = "sleep", !.wake = t + SLEEP_SECONDS * TicksPerSec,
                   !.sampled = {}, !.sample_size = 0, !.deleted_count = 0,
                   !.began = 0, !.passes = 0]
    ELSE [e EXCEPT !.task = "cycle", !.sampled = S,
                   !.sample_size = Cardinality(S), !.deleted_count = 0,
                   !.began = IF e.task = "sleep"
                             THEN Cardinality(StoreGetAllKeys(d)) ELSE @,
                   !.passes = @ + 1]

\* _run_active_expiry: asyncio.sleep(1) is over, a cycle begins.  In a run
\* that goes on forever the clock is counted up to env.maxTime only: a sleep
\* that would end after it ends at a time no longer counted.
SweepWake(S) ==
    /\ expiry.running /\ expiry.task = "sleep"
    /\ now >= expiry.wake \/ (env.forever /\ now = env.maxTime)
    /\ S \in Samples(StoreGetAllKeys(data))
    /\ expiry' = Iteration(expiry, data, S, now)
    /\ UNCHANGED <<env, now, data, net, sess, hist>>

\* the next sampled key is checked, the clock read for it
SweepCheck(key) ==
    /\ expiry.task = "cycle"
    /\ key \in expiry.sampled
    /\ env.ordered => key = CHOOSE x \in expiry.sampled : TRUE
    /\ LET r == CheckAndRemoveExpired(data, key, now)
       IN  /\ data' = r.data
           /\ expiry' = [expiry EXCEPT
                            !.sampled = @ \ {key},
                            !.deleted_count = @ + (IF r.removed THEN 1 ELSE 0)]
    /\ UNCHANGED <<env, now, net, sess, hist>>

\* the cycle going on at the threshold itself
CycleEnds_strict(e) ==
    e.deleted_count * 100 < ACTIVE_EXPIRY_THRESHOLD_PERCENT * e.sample_size

\* the comparison turned round: the cycle going on at and below the threshold
CycleEnds_above(e) ==
    e.deleted_count * 100 > ACTIVE_EXPIRY_THRESHOLD_PERCENT * e.sample_size

\* deletion_rate <= ACTIVE_EXPIRY_THRESHOLD_PERCENT ends the cycle
CycleEnds(e) ==
    e.deleted_count * 100 <= ACTIVE_EXPIRY_THRESHOLD_PERCENT * e.sample_size

\* all sampled keys are checked: the cycle ends or samples again
SweepRate(S) ==
    /\ expiry.task = "cycle"
    /\ expiry.sampled = {}
    /\ S \in Samples(StoreGetAllKeys(data))
    /\ expiry' = IF CycleEnds(expiry)
                 THEN Iteration(expiry, <<>>, {}, now)
                 ELSE Iteration(expiry, data, S, now)
    /\ UNCHANGED <<env, now, data, net, sess, hist>>

\* ------------------------------------------------------------------- spec
\* requests and replies on the open connections
Traffic ==
    \/ \E c \in Conns, f \in env.frames : ClientSend(c, f)
    \/ \E c \in Conns : \E n \in 1..Len(net[c].pending) : Deliver(c, n)
    \/ \E c \in Conns, t2 \in {now, now + 1} : SessionRead(c, t2)
    \/ \E c \in Conns : SessionDrain(c)

\* the background task
Sweeper ==
    \/ ExpiryStart
    \/ \E S \in Samples(StoreGetAllKeys(data)) : SweepWake(S)
    \/ \E key \in expiry.sampled : SweepCheck(key)
    \/ \E S \in Samples(StoreGetAllKeys(data)) : SweepRate(S)

\* connections ending
Teardown ==
    \/ \E c \in Conns : ClientClose(c)
    \/ \E c \in Conns : DeliverEof(c)
    \/ \E c \in Conns : SessionCancel(c)
    \/ \E c \in Conns : SessionWaitClosed(c)

\* The server with its clients connected: commands, the clock, the sweeper.
Serving == Traffic \/ Tick \/ Sweeper

Spec == Init /\ [][Serving]_vars

\* The same server seen from the wire: frames well-formed and malformed,
\* pipelined and cut anywhere, clients hanging up, sessions cancelled.
InitWire ==
    /\ env = [frames |-> WireFrames, split |-> TRUE, depth |-> WireCmds,
              maxTime |-> 0, maxCmds |-> WireCmds,
              lifecycle |-> FALSE, maxCalls |-> 1, ordered |-> FALSE, forever |-> FALSE, conns |-> {"c1"}]
    /\ InitState

Next == Traffic \/ Teardown

SpecWire == InitWire /\ [][Next]_vars

\* The expiry engine started and stopped at any time, any number of times,
\* over a store whose key gets a deadline.
InitLifecycle ==
    /\ env = [frames |-> LifeFrames, split |-> FALSE, depth |-> 1,
              maxTime |-> MaxTime, maxCmds |-> LifeCmds,
              lifecycle |-> TRUE, maxCalls |-> MaxCalls, ordered |-> FALSE, forever |-> FALSE, conns |-> {"c1"}]
    /\ InitState

\* The engine started and stopped by tasks that do not wait for each other:
\* a start() may be called while a stop() is suspended.
InitOverlap ==
    /\ env = [frames |-> LifeFrames, split |-> FALSE, depth |-> 1,
              maxTime |-> MaxTime, maxCmds |-> 1,
              lifecycle |-> TRUE, maxCalls |-> OverlapCalls, ordered |-> FALSE,
              forever |-> FALSE, conns |-> {"c1"}]
    /\ InitState

\* The server of Spec with clients that vary the arguments of PING and EXPIRE.
InitArgs ==
    /\ env = [frames |-> ArgFrames, split |-> FALSE, depth |-> 1,
              maxTime |-> MaxTime, maxCmds |-> ArgCmds,
              lifecycle |-> FALSE, maxCalls |-> 1, ordered |-> FALSE, forever |-> FALSE, conns |-> {"c1"}]
    /\ InitState

SpecArgs == InitArgs /\ [][Serving]_vars

\* The sweeper alone over a store of up to MaxKeys keys, some of them past
\* their deadline when it wakes; the keys of a sample are checked in one
\* order (their checks do not depend on each other).
CycleKey(i) == <<"k">> \o NatStr(i)

CycleStore(n, expired) ==
    [key \in {CycleKey(i) : i \in 1..n} |->
        IF key \in {CycleKey(i) : i \in 1..expired}
        THEN StoreEntry(<<"v">>, Some(0))
        ELSE StoreEntry(<<"v">>, Some(2 * SLEEP_SECONDS * TicksPerSec))]

InitCycle ==
    /\ env = [frames |-> {}, split |-> FALSE, depth |-> 1,
              maxTime |-> SLEEP_SECONDS * TicksPerSec, maxCmds |-> 0,
              lifecycle |-> FALSE, maxCalls |-> 1, ordered |-> TRUE, forever |-> FALSE, conns |-> {"c1"}]
    /\ now = 0
    /\ \E n \in 0..MaxKeys : \E expired \in 0..n : data = CycleStore(n, expired)
    /\ expiry = ExpiryInit
    /\ net = NetInit
    /\ sess = SessInit
    /\ hist = HistInit

Sweeping == Tick \/ Sweeper

SpecCycle == InitCycle /\ [][Sweeping]_vars

\* The sweeper's cycles while the clock stands at the last tick of a second:
\* the first `early` keys have the deadline `deadline`, at the start of that
\* second or later in it, the other keys the deadline `rest`, none or one
\* tick ahead of the clock.  The engine is started at that time.
ReclaimTime == 2 * SLEEP_SECONDS * TicksPerSec - 1

ReclaimStore(n, early, deadline, rest) ==
    [key \in {CycleKey(i) : i \in 1..n} |->
        IF key \in {CycleKey(i) : i \in 1..early}
        THEN StoreEntry(<<"v">>, Some(deadline))
        ELSE StoreEntry(<<"v">>, rest)]

InitReclaim ==
    /\ env = [frames |-> {}, split |-> FALSE, depth |-> 1,
              maxTime |-> ReclaimTime, maxCmds |-> 0,
              lifecycle |-> TRUE, maxCalls |-> 1, ordered |-> TRUE,
              forever |-> TRUE, conns |-> {"c1"}]
    /\ now = ReclaimTime
    /\ \E n \in 0..MaxKeys : \E early \in 0..n :
       \E deadline \in IntTime(ReclaimTime)..ReclaimTime :
       \E rest \in {None, Some(ReclaimTime + 1)} :
          data = ReclaimStore(n, early, deadline, rest)
    /\ expiry = ExpiryInit
    /\ net = NetInit
    /\ sess = SessInit
    /\ hist = HistInit

SpecReclaim == InitReclaim /\ [][Sweeper]_vars

\* The sweeper running forever over a store of MaxKeys keys that no client
\* touches: the first `passing` keys have a deadline that passes during the
\* first sleep, the others have none.
LiveStore(passing) ==
    [key \in {CycleKey(i) : i \in 1..MaxKeys} |->
        IF key \in {CycleKey(i) : i \in 1..passing}
        THEN StoreEntry(<<"v">>, Some(1))
        ELSE StoreEntry(<<"v">>, None)]

InitLive ==
    /\ env = [frames |-> {}, split |-> FALSE, depth |-> 1,
              maxTime |-> SLEEP_SECONDS * TicksPerSec, maxCmds |-> 0,
              lifecycle |-> FALSE, maxCalls |-> 1, ordered |-> TRUE,
              forever |-> TRUE, conns |-> {"c1"}]
    /\ now = 0
    /\ \E passing \in 0..MaxKeys : data = LiveStore(passing)
    /\ expiry = ExpiryInit
    /\ net = NetInit
    /\ sess = SessInit
    /\ hist = HistInit

\* the keys followed: every sample treats all keys alike
LiveKeys == {CycleKey(1), CycleKey(MaxKeys)}

\* The clock advances; the event loop runs the sweeper's task when it is
\* ready; random.sample does not leave a key out for ever.
LiveFairness ==
    /\ WF_vars(Tick)
    /\ WF_vars(\E key \in expiry.sampled : SweepCheck(key))
    /\ WF_vars(\E S \in Samples(StoreGetAllKeys(data)) : SweepRate(S))
    /\ \A k \in LiveKeys :
          SF_vars(\E S \in Samples(StoreGetAllKeys(data)) : k \in S /\ SweepWake(S))

SpecLive == InitLive /\ [][Sweeping]_vars /\ LiveFairness

Supervisor == ExpiryStop \/ SweepCancelled \/ ExpiryStopReturn

Lifecycle == Serving \/ Supervisor

SpecLifecycle == InitLifecycle /\ [][Lifecycle]_vars

Overlap == OverlapStart \/ StaleCancelled \/ StaleStopReturn

SpecOverlap == InitOverlap /\ [][Lifecycle \/ Overlap]_vars

\* The executor and the session given any frame on any store: the key absent,
\* present without deadline, present past its deadline, present with a
\* deadline to come and a value that is no number, or one that SET k 1_0 has
\* stored, or present with the largest value of a signed 64-bit integer.
\* The clock stands still.
InputStores ==
    { <<>>,
      K :> StoreEntry(PyStr(Int64Max), None),
      K :> StoreEntry(<<"9">>, None),
      K :> StoreEntry(<<"9">>, Some(0)),
      K :> StoreEntry(<<"a">>, Some(SLEEP_SECONDS * TicksPerSec)),
      K :> StoreEntry(<<"1", "_", "0">>, Some(SLEEP_SECONDS * TicksPerSec)) }

InitInput ==
    /\ env = [frames |-> InputFrames, split |-> FALSE, depth |-> 1,
              maxTime |-> 0, maxCmds |-> InputCmds,
              lifecycle |-> FALSE, maxCalls |-> 1, ordered |-> FALSE, forever |-> FALSE, conns |-> {"c1"}]
    /\ now = 0
    /\ data \in InputStores
    /\ expiry = ExpiryInit
    /\ net = NetInit
    /\ sess = SessInit
    /\ hist = HistInit

SpecInput == InitInput /\ [][Next]_vars

\* A client that reads while the clock and the sweeper run.  The store holds
\* K and another key, each without a deadline or with one that has passed or
\* is a second ahead.
InitRead ==
    /\ env = [frames |-> { Frame(<<PING>>), Frame(<<PING, <<"x">>>>),
                           Frame(<<GET, K>>), Frame(<<TTL, K>>),
                           Frame(<<GET, <<"o">>>>) },
              split |-> FALSE, depth |-> 1,
              maxTime |-> SLEEP_SECONDS * TicksPerSec, maxCmds |-> ReadCmds,
              lifecycle |-> FALSE, maxCalls |-> 1, ordered |-> FALSE,
              forever |-> FALSE, conns |-> {"c1"}]
    /\ now = 0
    /\ \E e1, e2 \in {None, Some(0), Some(SLEEP_SECONDS * TicksPerSec)} :
          data = (K :> StoreEntry(<<"9">>, e1)) @@
                 (<<"o">> :> StoreEntry(<<"7">>, e2))
    /\ expiry = ExpiryInit
    /\ net = NetInit
    /\ sess = SessInit
    /\ hist = HistInit

SpecRead == InitRead /\ [][Serving]_vars

\* Two connections that both increment one key, pipelined, while the clock
\* and the sweeper run.
InitIncr ==
    /\ env = [frames |-> {Frame(<<INCR, K>>)}, split |-> FALSE, depth |-> 2,
              maxTime |-> SLEEP_SECONDS * TicksPerSec, maxCmds |-> IncrCmds,
              lifecycle |-> FALSE, maxCalls |-> 1, ordered |-> FALSE,
              forever |-> FALSE, conns |-> Conns]
    /\ InitState

SpecIncr == InitIncr /\ [][Serving]_vars

\* Two connections on one server: either may send a frame that is no RESP
\* array, an EXPIRE whose deadline no float holds, or hang up, while both
\* increment one key and the sweeper runs.  No key gets a deadline, so the
\* clock is left out: the sweeper may wake between any two steps.
InitShared ==
    /\ env = [frames |-> { Frame(<<INCR, K>>),
                           Frame(<<EXPIRE, K, <<"9", "9", "9", "9", "9">>>>),
                           Malformed(<<"+", "O", "K", CR, LF>>) },
              split |-> FALSE, depth |-> 1,
              maxTime |-> 0, maxCmds |-> SharedCmds,
              lifecycle |-> FALSE, maxCalls |-> 1, ordered |-> FALSE,
              forever |-> TRUE, conns |-> Conns]
    /\ InitState

SpecShared == InitShared /\ [][Traffic \/ Sweeper \/ Teardown]_vars

\* The decoder given the frame of any command and the frame that follows it,
\* both in one buffer.
InitCodec ==
    /\ env = [frames |-> CodecFrames, split |-> FALSE, depth |-> 2,
              maxTime |-> 0, maxCmds |-> 2,
              lifecycle |-> FALSE, maxCalls |-> 1, ordered |-> FALSE,
              forever |-> FALSE, conns |-> {"c1"}]
    /\ InitState

SpecCodec == InitCodec /\ [][Traffic]_vars

\* ----------------------------------------------------------------- claims
\* this step ran a command on connection c: sess'[c].lastCmd, with result
\* sess'[c].lastRes
Executed(c) == sess'[c].nExec = sess[c].nExec + 1

HasDeadline(d, k) == k \in DOMAIN d /\ ~IsNone(d[k].expiry_at)

\* C2: after SET k v, every TTL k executed before the next EXPIRE k replies
\* -1, whatever the state before the SET, the time passed and the sweeper.
C2_SetClearsTtl ==
    [][\A c \in Conns, k \in Keys :
        (Executed(c) /\ sess'[c].lastCmd = <<TTL, k>> /\ hist[k].setNoExpire)
            => sess'[c].lastRes = RInt(0 - 1)]_vars

\* a TTL k replied -1 after a SET k, one second or more after the start and
\* with the sweeper started
C2_Witness ==
    \E c \in Conns, k \in Keys :
        /\ sess[c].lastCmd = <<TTL, k>>
        /\ sess[c].lastRes = RInt(0 - 1)
        /\ hist[k].setNoExpire
        /\ sess[c].nExec = MaxCmds
        /\ expiry.running
        /\ now >= TicksPerSec

\* the reply of a command that finds its key absent
AbsentReply(cmd) ==
    IF Upper(cmd[1]) = GET THEN RNone
    ELSE IF Upper(cmd[1]) = INCR THEN RInt(1)
    ELSE IF Upper(cmd[1]) = EXPIRE THEN RInt(0)
    ELSE RInt(0 - 2)

ReadsKey(cmd, k) ==
    /\ Len(cmd) >= 2
    /\ cmd[2] = k
    /\ \/ CmdIs(cmd, GET, 2) \/ CmdIs(cmd, INCR, 2) \/ CmdIs(cmd, TTL, 2)
       \/ (CmdIs(cmd, EXPIRE, 3) /\ PyInt(cmd[3]).ok)

\* C3: GET, INCR, EXPIRE or TTL on a key whose deadline is less than the
\* time at the start of the command observes the key as absent (null, 1, 0,
\* -2) and the old entry is gone.
C3_PassiveExpiryTotal ==
    [][\A c \in Conns, k \in Keys :
        (/\ Executed(c)
         /\ ReadsKey(sess'[c].lastCmd, k)
         /\ HasDeadline(data, k)
         /\ The(data[k].expiry_at) < now)
            => /\ sess'[c].lastRes = AbsentReply(sess'[c].lastCmd)
               /\ (k \in DOMAIN data' =>
                      /\ CmdIs(sess'[c].lastCmd, INCR, 2)
                      /\ data'[k] = StoreEntry(<<"1">>, None))]_vars

\* C4: every key the sweeper deletes had a deadline no later than the time
\* read for its check, and the sweeper changes no other entry.
C4_SweeperOnlyExpired ==
    [][\A k \in Keys :
        (expiry' # expiry /\ k \in DOMAIN data)
            => \/ (k \in DOMAIN data' /\ data'[k] = data[k])
               \/ /\ k \notin DOMAIN data'
                  /\ HasDeadline(data, k)
                  /\ The(data[k].expiry_at) <= now]_vars

\* the sweeper has deleted a key in the running cycle
C4_Witness == expiry.task = "cycle" /\ expiry.deleted_count > 0

\* C5: from key k absent, the n-th of n successive INCR k replies n and
\* leaves the decimal string of n as the value of k.
C5_IncrComposition ==
    [][\A c \in Conns, k \in Keys :
        (Executed(c) /\ sess'[c].lastCmd = <<INCR, k>> /\ hist'[k].run > 0)
            => /\ sess'[c].lastRes = RInt(hist'[k].run)
               /\ k \in DOMAIN data'
               /\ data'[k].value = PyStr(hist'[k].run)]_vars

\* three successive INCR from absent have replied 1, 2, 3
C5_Witness ==
    \E c \in Conns, k \in Keys :
        /\ hist[k].run = 3
        /\ sess[c].lastCmd = <<INCR, k>>
        /\ sess[c].lastRes = RInt(3)
        /\ data[k].value = <<"3">>

\* C6 as stated: a TTL k replies no more than any earlier TTL k since the
\* last SET k or EXPIRE k.
C6_TtlMonotone ==
    [][\A c \in Conns, k \in Keys :
        (Executed(c) /\ sess'[c].lastCmd = <<TTL, k>>)
            => /\ (hist[k].absentEver => sess'[c].lastRes.n <= 0 - 2)
               /\ (~IsNone(hist[k].ttlLive)
                      => sess'[c].lastRes.n <= The(hist[k].ttlLive))]_vars

\* C6 amended: the same, except after an earlier reply of -2 followed by an
\* INCR k, which creates the key again.
C6_TtlMonotoneUnlessCreated ==
    [][\A c \in Conns, k \in Keys :
        (Executed(c) /\ sess'[c].lastCmd = <<TTL, k>>)
            => /\ (hist[k].absentNoIncr => sess'[c].lastRes.n <= 0 - 2)
               /\ (~IsNone(hist[k].ttlLive)
                      => sess'[c].lastRes.n <= The(hist[k].ttlLive))]_vars

\* a TTL k replied 0 and a later one, after the deadline, -2
C6_Witness ==
    \E c \in Conns, k \in Keys :
        /\ sess[c].lastCmd = <<TTL, k>>
        /\ sess[c].lastRes = RInt(0 - 2)
        /\ hist[k].ttlLive = Some(0)
        /\ hist[k].absentNoIncr

\* ------------------------------------------------------- claims, the wire
SessionFlushed(s) == s.wbuf = <<>> /\ s.nFlushed = s.nWritten

C7_CommandErrorContinues ==
    [][\A c \in Conns :
        /\ (Executed(c) /\ sess'[c].lastRes.t = "CommandError") =>
              /\ sess'[c].wbuf = sess[c].wbuf \o encode_error(sess'[c].lastRes.msg)
              /\ sess'[c].nWritten = sess[c].nWritten + 1
              /\ ~sess'[c].closed
              /\ sess'[c].task = "drain"
        /\ (/\ sess[c].task = "drain"
            /\ sess[c].lastRes.t = "CommandError"
            /\ sess'[c].task # "drain"
            /\ sess'[c].end # "CancelledError") =>
              /\ sess'[c].task = "read"
              /\ ~sess'[c].closed
              /\ sess'[c].rd = sess[c].rd]_vars

\* after an Error reply the next command was run and answered +PONG
C7_Witness ==
    \E c \in Conns :
        /\ sess[c].nErr = 1
        /\ sess[c].nExec = 2
        /\ sess[c].lastCmd = <<PING>>
        /\ sess[c].lastReply = encode_simple_string(<<"PONG">>)
        /\ sess[c].nFlushed = 2
        /\ ~sess[c].closed

GrammarErrors == {"RESPProtocolError", "ValueError", "UnicodeDecodeError"}

\* C8: when the session reads a malformed frame that has arrived in full, it
\* writes nothing, runs nothing and closes; no malformed frame is ever run;
\* and a closed session reads, runs and writes nothing more.
C8_GrammarViolationCloses ==
    [][\A c \in Conns :
        /\ (/\ sess[c].task = "read"
            /\ ~net[c].eof
            /\ net[c].pending = <<>>
            /\ Len(net[c].queue) = 1
            /\ ~Head(net[c].queue).ok
            /\ sess'[c].buf # sess[c].buf) =>
              /\ sess'[c].end \in GrammarErrors
              /\ sess'[c].closed
              /\ sess'[c].wbuf = sess[c].wbuf
              /\ sess'[c].nWritten = sess[c].nWritten
              /\ sess'[c].nExec = sess[c].nExec
              /\ data' = data
        /\ (Executed(c) => net[c].queue # <<>> /\ Head(net[c].queue).ok)
        /\ (sess[c].closed =>
              /\ sess'[c].closed
              /\ sess'[c].nExec = sess[c].nExec
              /\ sess'[c].nWritten = sess[c].nWritten
              /\ sess'[c].wbuf = sess[c].wbuf
              /\ sess'[c].rd = sess[c].rd
              /\ sess'[c].buf = sess[c].buf
              /\ data' = data)]_vars

\* a command was answered, then a payload that is not UTF-8 closed the
\* connection
C8_Witness ==
    \E c \in Conns :
        /\ sess[c].end = "UnicodeDecodeError"
        /\ sess[c].closed
        /\ sess[c].nExec = 1
        /\ sess[c].nWritten = 1
        /\ net[c].nSent = 2

\* C9: the reply to GET k is the Bulk String of the value of k, or the null
\* bulk when k is absent.
C9_GetRepliesBulkString ==
    [][\A c \in Conns, k \in Keys :
        (Executed(c) /\ sess'[c].lastCmd = <<GET, k>>) =>
            sess'[c].lastReply =
                encode_bulk_string(IF k \in DOMAIN data'
                                   THEN Some(data'[k].value) ELSE None)]_vars

\* C10: a session task that has finished has closed its writer and awaited
\* wait_closed, whatever ended its loop.
C10_ClosedAndAwaited ==
    \A c \in Conns :
        /\ (sess[c].task = "done" => sess[c].closed /\ sess[c].awaited)
        /\ (sess[c].awaited => sess[c].closed)
        /\ (sess[c].end # "" => sess[c].task \in {"wait_closed", "done"})

\* the stream ended in the middle of a frame and the task has finished
C10_Witness ==
    \E c \in Conns :
        /\ sess[c].task = "done"
        /\ sess[c].end = "IncompleteReadError"
        /\ sess[c].rd.result # <<>>
        /\ sess[c].closed /\ sess[c].awaited

\* C11: a session cancelled while it awaits bytes or a flush closes its
\* writer, awaits the closure, and then ends with CancelledError raised to
\* whoever awaits the task; no other ending raises it.
C11_CancellationPropagates ==
    [][\A c \in Conns :
        /\ (sess'[c].end = "CancelledError" /\ sess[c].end = "") =>
              /\ sess[c].task \in {"read", "drain"}
              /\ sess'[c].closed
              /\ sess'[c].task = "wait_closed"
        /\ (sess'[c].task = "done" /\ sess[c].task # "done") =>
              /\ sess'[c].closed /\ sess'[c].awaited
              /\ (sess'[c].end = "CancelledError"
                     <=> sess'[c].exc = "CancelledError")]_vars

\* cancelled while awaiting the flush of a reply; the task has ended
C11_Witness ==
    \E c \in Conns :
        /\ sess[c].task = "done"
        /\ sess[c].end = "CancelledError"
        /\ sess[c].exc = "CancelledError"
        /\ sess[c].wbuf # <<>>
        /\ sess[c].closed

\* ------------------------------------------------- claims, the lifecycle
\* this step is a call of start(), of stop()
StartCalled ==
    /\ expiry'.nCalls = expiry.nCalls + 1
    /\ expiry'.call \in {"start", "start:RuntimeError"}

StopCalled ==
    /\ expiry'.nCalls = expiry.nCalls + 1
    /\ expiry'.call \in {"stop", "stop:await", "stop:noop", "stop:RuntimeError"}

\* what start() and stop() act on
EngineState(e) == <<e.running, e.handle, e.tasks, e.task, e.wake>>

\* C12: start() on a running engine raises RuntimeError and changes neither
\* the flag, nor the task, nor the store; no second task is created.
C12_StartWhileRunningFails ==
    [][(StartCalled /\ expiry.running) =>
          /\ expiry'.call = "start:RuntimeError"
          /\ EngineState(expiry') = EngineState(expiry)
          /\ expiry'.running /\ expiry'.tasks = 1
          /\ data' = data]_vars

\* a start() has failed on an engine whose task sleeps on
C12_Witness ==
    /\ expiry.call = "start:RuntimeError"
    /\ expiry.running
    /\ expiry.tasks = 1
    /\ expiry.task = "sleep"
    /\ expiry.handle

\* this step is the return of a stop() that found the engine running
StopReturned ==
    /\ expiry'.call = "stop"
    /\ expiry.call = "stop:await" \/ expiry'.nCalls = expiry.nCalls + 1

C14_StopIdleNoOp ==
    [][(StopCalled /\ ~expiry.running) =>
          /\ expiry'.call = "stop:noop"
          /\ EngineState(expiry') = EngineState(expiry)
          /\ ~expiry'.running /\ ~expiry'.handle /\ expiry'.tasks = 0
          /\ data' = data]_vars

\* stop() was a no-op again, as the last of the calls made
C14_Witness ==
    /\ expiry.call = "stop:noop"
    /\ expiry.nCalls = MaxCalls
    /\ ~expiry.running
    /\ ~expiry.handle
    /\ data # <<>>

\* ------------------------------------------------------ claims, the cycle
\* the sweeper task takes a step: from its sleep, or inside a cycle
SweeperSteps ==
    /\ expiry' # expiry
    /\ expiry'.nCalls = expiry.nCalls
    /\ expiry'.call = expiry.call
    /\ expiry'.tasks = expiry.tasks

\* the sweeper has ended its cycle
CycleEnded == expiry'.task = "sleep" /\ expiry'.sampled = {} /\ data' = data

\* the sweeper has drawn a sample of the keys of the store
Sampled ==
    /\ expiry'.task = "cycle"
    /\ expiry'.sampled \subseteq DOMAIN data
    /\ Cardinality(expiry'.sampled) = Min(20, Cardinality(DOMAIN data))
    /\ expiry'.sample_size = Cardinality(expiry'.sampled)
    /\ expiry'.deleted_count = 0
    /\ data' = data

\* an iteration begins: no keys ends the cycle, else a sample is drawn
IterationBegins == IF data = <<>> THEN CycleEnded ELSE Sampled

C16_PingArities ==
    [][\A c \in Conns :
        (Executed(c) /\ sess'[c].lastCmd # <<>> /\ sess'[c].lastCmd[1] = PING) =>
            LET cmd == sess'[c].lastCmd
            IN  /\ data' = data
                /\ Len(cmd) = 1 =>
                      sess'[c].lastReply = encode_simple_string(<<"PONG">>)
                /\ Len(cmd) = 2 =>
                      sess'[c].lastReply = encode_bulk_string(Some(cmd[2]))
                /\ Len(cmd) > 2 =>
                      sess'[c].lastRes.t = "CommandError"]_vars

ErrInvalidExpire == <<"ERR invalid expire time in '", "expire", "' command">>

\* C17: EXPIRE k s with s < 0 raises the CommandError `ERR invalid expire
\* time in 'expire' command` and leaves the store as it was.
C17_NegativeExpireRejected ==
    [][\A c \in Conns :
        (/\ Executed(c)
         /\ CmdIs(sess'[c].lastCmd, EXPIRE, 3)
         /\ PyInt(sess'[c].lastCmd[3]).ok
         /\ PyInt(sess'[c].lastCmd[3]).val < 0) =>
            /\ sess'[c].lastRes.t = "CommandError"
            /\ sess'[c].lastReply = encode_error(ErrInvalidExpire)
            /\ data' = data]_vars

\* the command run by this step is EXPIRE k s with s >= 0
ExpireRan(c, k) ==
    /\ Executed(c)
    /\ CmdIs(sess'[c].lastCmd, EXPIRE, 3)
    /\ sess'[c].lastCmd[2] = k
    /\ PyInt(sess'[c].lastCmd[3]).ok
    /\ PyInt(sess'[c].lastCmd[3]).val >= 0

\* the store after the passive check of k that opens the command of this step
AfterPassiveCheck(k) == CheckAndRemoveExpired(data, k, now).data

C19_ExpireZeroImmediate ==
    [][\A c \in Conns, k \in Keys :
        (/\ Executed(c)
         /\ ReadsKey(sess'[c].lastCmd, k)
         /\ hist[k].zeroed
         /\ HasDeadline(data, k) => The(data[k].expiry_at) < now)
            => /\ sess'[c].lastRes = AbsentReply(sess'[c].lastCmd)
               /\ (k \in DOMAIN data' =>
                      /\ CmdIs(sess'[c].lastCmd, INCR, 2)
                      /\ data'[k] = StoreEntry(<<"1">>, None))]_vars

\* C20: TTL k replies -2 exactly when k is not in the store after the passive
\* check, -1 exactly when it is there without deadline, and else the whole
\* seconds from the time read to the deadline, rounded down and not below 0.
C20_TtlReply ==
    [][\A c \in Conns, k \in Keys :
        (Executed(c) /\ sess'[c].lastCmd = <<TTL, k>>) =>
            LET d == AfterPassiveCheck(k)
                n == sess'[c].lastRes.n
            IN  /\ sess'[c].lastRes.t = "int"
                /\ n = 0 - 2 <=> k \notin DOMAIN d
                /\ n = 0 - 1 <=> (k \in DOMAIN d /\ IsNone(d[k].expiry_at))
                /\ HasDeadline(d, k) =>
                      n = Max(0, (The(d[k].expiry_at) - now') \div TicksPerSec)
                /\ n \in {0 - 2, 0 - 1} \/ n >= 0
                /\ data' = d]_vars

\* TTL k has replied 0 for a key whose deadline has passed and which is
\* still in the store
C20_Witness ==
    \E c \in Conns, k \in Keys :
        /\ sess[c].lastCmd = <<TTL, k>>
        /\ sess[c].lastRes = RInt(0)
        /\ HasDeadline(data, k)
        /\ The(data[k].expiry_at) < now

\* str.upper() of a command name, letter by letter
Shout(name) ==
    LET lower == <<"a", "b", "c", "d", "e", "f", "g", "h", "i", "j", "k", "l",
                   "m", "n", "o", "p", "q", "r", "s", "t", "u", "v", "w", "x",
                   "y", "z">>
        upper == <<"A", "B", "C", "D", "E", "F", "G", "H", "I", "J", "K", "L",
                   "M", "N", "O", "P", "Q", "R", "S", "T", "U", "V", "W", "X",
                   "Y", "Z">>
    IN  [i \in 1..Len(name) |->
            IF \E j \in 1..26 : lower[j] = name[i]
            THEN upper[CHOOSE j \in 1..26 : lower[j] = name[i]]
            ELSE name[i]]

CommandNames == {PING, GET, SET, INCR, EXPIRE, TTL}

C22_OnlyCommandError ==
    [][\A c \in Conns :
        Executed(c) =>
            /\ sess'[c].lastRes.t \in {"str", "int", "none", "CommandError"}
            /\ sess'[c].nWritten = sess[c].nWritten + 1
            /\ sess'[c].lastReply # <<>>
            /\ ~sess'[c].closed]_vars

\* the session of c resumes in this step with exactly the bytes of frame f
\* to read
Reads(c, f) ==
    /\ sess[c].task = "read"
    /\ sess[c].rd = ParserStart
    /\ sess[c].buf = f.bytes
    /\ sess'[c].buf # sess[c].buf

\* C23: a frame with a negative array count or a negative bulk length gives
\* no command: the session runs nothing, writes nothing and closes.
C23_NegativeCountsClose ==
    [][\A c \in Conns, f \in NegFrames :
        Reads(c, f) =>
            /\ sess'[c].nExec = sess[c].nExec
            /\ sess'[c].nWritten = sess[c].nWritten
            /\ sess'[c].wbuf = sess[c].wbuf
            /\ sess'[c].closed
            /\ data' = data]_vars

\* the name as the error message spells it
Lowered(NAME) ==
    CASE NAME = PING -> "ping" [] NAME = GET -> "get" [] NAME = SET -> "set"
      [] NAME = INCR -> "incr" [] NAME = EXPIRE -> "expire" [] NAME = TTL -> "ttl"

C25_IncrNonInteger ==
    [][\A c \in Conns, k \in Keys :
        (/\ Executed(c)
         /\ sess'[c].lastCmd = <<INCR, k>>
         /\ k \in DOMAIN AfterPassiveCheck(k)
         /\ LET v == data[k].value
                body == IF v # <<>> /\ Head(v) \in {"+", "-"} THEN Tail(v) ELSE v
            IN  ~(body # <<>> /\ \A i \in 1..Len(body) : body[i] \in Digits))
            => /\ sess'[c].lastRes = RCommandError(ErrNotInteger)
               /\ k \in DOMAIN data'
               /\ data'[k] = data[k]]_vars

\* C26: a key that is in the store without deadline is in the store after
\* every step, of a command, of the passive check or of the sweeper, at any
\* time; it has no deadline until an EXPIRE of this key gives it one.
C26_NoDeadlineNeverExpires ==
    [][\A k \in Keys :
        (k \in DOMAIN data /\ IsNone(data[k].expiry_at)) =>
            /\ k \in DOMAIN data'
            /\ HasDeadline(data', k) =>
                  \E c \in Conns :
                      /\ Executed(c)
                      /\ CmdIs(sess'[c].lastCmd, EXPIRE, 3)
                      /\ sess'[c].lastCmd[2] = k]_vars

\* more than a second after the start the sweeper has checked the only key,
\* which has no deadline, and deleted nothing
C26_Witness ==
    /\ expiry.task = "cycle"
    /\ expiry.sampled = {}
    /\ expiry.sample_size = 1
    /\ expiry.deleted_count = 0
    /\ now > SLEEP_SECONDS * TicksPerSec
    /\ K \in DOMAIN data
    /\ IsNone(data[K].expiry_at)

\* C27: while the sweeper is running, a key whose deadline has passed and
\* that no command touches is not in the store some time later.
C27_SweeperReclaims ==
    \A k \in LiveKeys :
        (expiry.running /\ HasDeadline(data, k) /\ The(data[k].expiry_at) < now)
            ~> (k \notin DOMAIN data)

\* the sweeper sleeps after a cycle that has left a key past its deadline in
\* the store
C27_Witness ==
    /\ expiry.running
    /\ expiry.task = "sleep"
    /\ expiry.wake > SLEEP_SECONDS * TicksPerSec
    /\ \E k \in DOMAIN data :
          HasDeadline(data, k) /\ The(data[k].expiry_at) <= IntTime(now)

\* C28: when the session reads the frame that encodes command c as an array
\* of Bulk Strings, length prefix in bytes, it decodes exactly c and leaves
\* in its buffer exactly the bytes of the frames that follow.
C28_CommandRoundTrip ==
    [][\A c \in Conns :
        (/\ sess[c].task = "read"
         /\ sess'[c].buf # sess[c].buf
         /\ net[c].pending = <<>>
         /\ net[c].queue # <<>>
         /\ Head(net[c].queue).ok) =>
            /\ Executed(c)
            /\ sess'[c].lastCmd = Head(net[c].queue).cmd
            /\ sess'[c].rd = ParserStart
            /\ sess[c].buf = FramesBytes(net[c].queue)
            /\ sess'[c].buf = FramesBytes(Tail(net[c].queue))]_vars

\* a command of a string with CR LF and a two-byte character was decoded
\* and the bytes of the next frame, which holds an empty string, remain
C28_Witness ==
    \E c \in Conns :
        /\ sess[c].nExec = 1
        /\ sess[c].lastCmd = <<<<"$", CR, LF>>, <<"U+00E9">>>>
        /\ sess[c].buf = encode_array(<<<<"U+00E9">>, <<>>>>)

\* C29: whatever the interleaving of the INCR k of several connections with
\* each other and with the sweeper, on a key absent at first, the n-th INCR
\* executed replies n and leaves the decimal string of n, without deadline:
\* the replies are 1..m, each once, and the value is m at the end.
C29_NoLostUpdate ==
    [][\A c \in Conns :
        Executed(c) =>
            LET done == sess["c1"].nExec + sess["c2"].nExec
            IN  /\ sess'[c].lastCmd = <<INCR, K>>
                /\ sess'[c].lastRes = RInt(done + 1)
                /\ data' = K :> StoreEntry(PyStr(done + 1), None)
                /\ \A o \in Conns \ {c} : sess'[o] = sess[o]]_vars

\* both connections have run their INCR k, alternating, the second connection
\* last, while the sweeper was in a cycle over the key
C29_Witness ==
    /\ sess["c1"].nExec = 2
    /\ sess["c2"].nExec = 2
    /\ sess["c1"].lastRes = RInt(3)
    /\ sess["c2"].lastRes = RInt(4)
    /\ data[K].value = PyStr(4)
    /\ expiry.running
    /\ expiry.deleted_count = 0 /\ expiry.sample_size = 1

\* C30: the step on which the session of a connection ends (the parser
\* raised, the client hung up, execute raised something unexpected, the task
\* was cancelled) changes neither the store nor the sweeper nor the session
\* or the stream of any other connection; the sweeper once started stays
\* running; and a connection whose command is executed while another
\* connection's session has ended is written the reply of that command on
\* the store as it is: INCR k one more than the value held (1 on an absent
\* key), EXPIRE on an absent key 0.
C30_FailureIsolated ==
    [][\A c \in Conns :
        LET others == Conns \ {c}
            held == IF K \in DOMAIN data THEN PyInt(data[K].value).val ELSE 0
        IN  /\ (~sess[c].closed /\ sess'[c].closed) =>
                  /\ data' = data
                  /\ expiry' = expiry
                  /\ \A o \in others : sess'[o] = sess[o] /\ net'[o] = net[o]
            /\ (expiry.running => expiry'.running)
            /\ (Executed(c) /\ ~sess'[c].closed /\ (\E o \in others : sess[o].closed)) =>
                  /\ sess'[c].lastCmd = <<INCR, K>> =>
                        /\ sess'[c].lastReply = encode_integer(held + 1)
                        /\ data'[K].value = PyStr(held + 1)
                  /\ sess'[c].lastCmd # <<INCR, K>> =>
                        /\ K \notin DOMAIN data
                        /\ sess'[c].lastReply = encode_integer(0)
                        /\ data' = data]_vars

\* the first connection, after one INCR k, sent a frame that is no array and
\* its session ended on the protocol error; the second connection has since
\* been written :2, and the sweeper is in a cycle over the key
C30_Witness ==
    /\ sess["c1"].closed /\ sess["c1"].end = "RESPProtocolError"
    /\ sess["c1"].nExec = 1 /\ sess["c1"].lastRes = RInt(1)
    /\ ~sess["c2"].closed
    /\ sess["c2"].nExec = 1
    /\ sess["c2"].lastReply = encode_integer(2)
    /\ sess["c2"].nFlushed = 1
    /\ data[K].value = PyStr(2)
    /\ expiry.running /\ expiry.task = "cycle"

\* C31: a command is run only when the bytes the session holds of it (those
\* the decoder has consumed and those in the buffer) hold its whole frame;
\* and the step on which the session ends on IncompleteReadError runs
\* nothing, writes nothing and leaves the store alone, every reply written
\* before has been flushed, and what the session holds of the next frame the
\* client sent is less than that frame (nothing at all when the client sent
\* no further frame): every frame received in full before has been run.
C31_PartialFrameNotRun ==
    [][\A c \in Conns :
        LET s == sess[c]
            q == net[c].queue
            consumed ==
                IF s.rd.at = "array" THEN <<>>
                ELSE <<"*">> \o PyStr(s.rd.count) \o CRLF \o EncodeItems(s.rd.result)
                     \o (IF s.rd.at = "exact"
                         THEN <<"$">> \o PyStr(s.rd.want - 2) \o CRLF ELSE <<>>)
            held == consumed \o s.buf
            frame == encode_array(Head(q).cmd)
        IN  /\ Executed(c) =>
                  /\ q # <<>> /\ Head(q).ok
                  /\ Len(frame) <= Len(held)
                  /\ SubSeq(held, 1, Len(frame)) = frame
            /\ (~s.closed /\ sess'[c].closed /\ sess'[c].end = "IncompleteReadError") =>
                  /\ data' = data
                  /\ sess'[c].nExec = s.nExec
                  /\ sess'[c].nWritten = s.nWritten
                  /\ sess'[c].wbuf = s.wbuf
                  /\ SessionFlushed(s)
                  /\ s.nExec = s.nWritten
                  /\ (q = <<>> => held = <<>>)
                  /\ (q # <<>> /\ Head(q).ok) =>
                        /\ Len(held) < Len(frame)
                        /\ held = SubSeq(frame, 1, Len(held))]_vars

\* one command was run and its reply flushed; of the next one the decoder had
\* taken the first element when the stream ended, and the session closed
C31_Witness ==
    \E c \in Conns :
        /\ sess[c].closed
        /\ sess[c].end = "IncompleteReadError"
        /\ sess[c].nExec = 1 /\ sess[c].nFlushed = 1
        /\ sess[c].rd.result # <<>>
        /\ Len(net[c].queue) = 1 /\ Head(net[c].queue).ok
        /\ DOMAIN data = {K}

\* C32: where the decoder stops for want of bytes makes no difference: from
\* the position and buffer it is left with, any further stretch of the bytes
\* in flight is decoded to what it would have been decoded to from the
\* position and buffer it had before; and the command run for a frame that
\* arrived in any chunks is the command decoded from the frame's bytes given
\* at once.
C32_ChunkingInvisible ==
    [][\A c \in Conns :
        /\ (/\ sess[c].task = "read" /\ sess'[c].task = "read"
            /\ net'[c] = net[c]
            /\ sess'[c] # sess[c]) =>
              \A n \in 0..Len(net[c].pending) : \A eof \in BOOLEAN :
                  LET more == SubSeq(net[c].pending, 1, n)
                  IN  ParseRun(sess'[c].buf \o more, eof, sess'[c].rd)
                          = ParseRun(sess[c].buf \o more, eof, sess[c].rd)
        /\ Executed(c) =>
              /\ net[c].queue # <<>>
              /\ LET whole == ParseRun(encode_array(Head(net[c].queue).cmd),
                                       FALSE, ParserStart)
                 IN  /\ whole.kind = "command"
                     /\ whole.buf = <<>>
                     /\ sess'[c].lastCmd = whole.cmd]_vars

\* after a first command was run, the decoder has taken elements of a second
\* one, and the bytes that have arrived end between the CR and the LF of a
\* terminator
C32_Witness ==
    \E c \in Conns :
        /\ sess[c].nExec = 1
        /\ sess[c].task = "read"
        /\ sess[c].rd.result # <<>>
        /\ sess[c].buf # <<>>
        /\ sess[c].buf[Len(sess[c].buf)] = CR
        /\ net[c].pending # <<>>
        /\ Head(net[c].pending) = LF

\* the cycle returns: the sweeper goes from a cycle, or from its sleep over
\* an empty store, to its sleep
CycleReturns == SweeperSteps /\ expiry.running /\ expiry'.task = "sleep"

\* C33: when a cycle returns and every key it found at its start had a
\* deadline at or before the clock, the store is empty.  (The clock stands
\* and a cycle only deletes keys, each at or past its deadline: the keys at
\* the start were all at or past their deadline exactly when those left are.)
C33_CycleEmptiesExpiredStore ==
    [][CycleReturns =>
          ((\A k \in DOMAIN data' :
                HasDeadline(data', k) /\ The(data'[k].expiry_at) <= now')
              => data' = <<>>)]_vars

\* C34: a cycle deletes only keys whose deadline is at or before the clock,
\* and when a cycle that began with at most 20 keys returns, no key whose
\* deadline is at or before the clock is left.
C34_SmallStoreSweptExactly ==
    [][SweeperSteps =>
          /\ \A k \in DOMAIN data \ DOMAIN data' :
                HasDeadline(data, k) /\ The(data[k].expiry_at) <= now
          /\ \A k \in DOMAIN data' : data'[k] = data[k]
          /\ (CycleReturns /\ expiry.began <= ACTIVE_EXPIRY_SAMPLE_SIZE) =>
                \A k \in DOMAIN data' :
                    ~(HasDeadline(data', k) /\ The(data'[k].expiry_at) <= now')]_vars

\* C35: every Integer reply lies in the signed 64-bit range, and INCR k on a
\* live key whose value is the largest such number, or a number outside the
\* range, replies the not-an-integer error and leaves the store as it was.
C35_IncrStaysInInt64 ==
    [][\A c \in Conns :
        Executed(c) =>
            LET res == sess'[c].lastRes
                live == CheckAndRemoveExpired(data, K, now).data
                held == PyInt(live[K].value)
            IN  /\ res.t = "int" => (0 - Int64Max - 1 <= res.n /\ res.n <= Int64Max)
                /\ (/\ sess'[c].lastCmd = <<INCR, K>>
                    /\ K \in DOMAIN live
                    /\ held.ok
                    /\ (held.val >= Int64Max \/ held.val < 0 - Int64Max - 1)) =>
                      /\ res = RCommandError(ErrNotInteger)
                      /\ data' = data]_vars

\* C36: on any store the server reaches, set_expiry(key, deadline) on a
\* present key evaluates to True and leaves the store with that deadline on
\* the key and nothing else changed; on an absent key it evaluates to False
\* and leaves the store as it was, without the key and without a deadline
\* for it.
C36_SetExpiryReportsPresence ==
    \A key \in Keys : \A deadline \in 0..MaxTime :
        LET after == StoreSetExpiry(data, key, deadline)
            ret == StoreSetExpiryReturn(data, key, deadline)
        IN  IF key \in DOMAIN data
            THEN /\ ret = "True"
                 /\ StoreGetExpiry(after, key) = Some(deadline)
                 /\ after = [data EXCEPT ![key].expiry_at = Some(deadline)]
            ELSE /\ ret = "False"
                 /\ after = data
                 /\ StoreGetExpiry(after, key) = None

\* C37: whatever start() and stop() calls were made and however far each
\* has got, at most one background task is alive, and while the flag is true
\* the handle is set and the task it refers to is alive.
C37_OneLiveSweeper ==
    /\ expiry.tasks <= 1
    /\ expiry.running => (expiry.handle /\ expiry.task # "none")

\* C38: an INCR k executed on a present key whose deadline has not passed
\* leaves the deadline of k as it was: only the value changes.
C38_IncrKeepsDeadline ==
    [][\A c \in Conns, k \in Keys :
        (/\ Executed(c)
         /\ sess'[c].lastCmd = <<INCR, k>>
         /\ HasDeadline(data, k)
         /\ now < The(data[k].expiry_at))
            => /\ k \in DOMAIN data'
               /\ data'[k].expiry_at = data[k].expiry_at]_vars

\* C39: every cycle of the sweeper ends.  A pass that is followed by another
\* pass has deleted a key at least, no step of a cycle adds a key, and a
\* cycle begun on K keys draws at most K samples before the pass that ends it.
C39_CycleTerminates ==
    /\ [][SweeperSteps =>
            /\ (InCycle /\ expiry'.passes > expiry.passes) =>
                  /\ expiry.deleted_count >= 1
                  /\ Cardinality(DOMAIN data) < expiry.began
            /\ (InCycle \/ expiry'.task = "cycle") =>
                  DOMAIN data' \subseteq DOMAIN data
            /\ expiry'.task = "cycle" =>
                  /\ expiry'.passes <= expiry'.began
                  /\ Cardinality(DOMAIN data') + expiry'.passes
                        <= expiry'.began + 1]_vars
    /\ InCycle ~> ~InCycle

\* the second pass of a cycle begun on MaxKeys keys has deleted the last key
C39_Witness ==
    /\ InCycle
    /\ expiry.began = MaxKeys
    /\ expiry.passes = 2
    /\ expiry.deleted_count >= 1
    /\ data = <<>>

\* C40: a step that executes PING, GET or TTL creates no key and changes no
\* value and no deadline; the one key it may remove is the key named by GET
\* or TTL, and only when the deadline of that key has passed.
C40_ReadsOnlyEvict ==
    [][\A c \in Conns :
        LET cmd == sess'[c].lastCmd
        IN  (Executed(c) /\ cmd # <<>> /\ Upper(cmd[1]) \in {PING, GET, TTL}) =>
               /\ \A x \in DOMAIN data' : x \in DOMAIN data /\ data'[x] = data[x]
               /\ \A x \in DOMAIN data \ DOMAIN data' :
                     /\ Upper(cmd[1]) \in {GET, TTL}
                     /\ Len(cmd) = 2
                     /\ x = cmd[2]
                     /\ HasDeadline(data, x)
                     /\ The(data[x].expiry_at) <= now]_vars

\* GET k has removed k, past its deadline, before the sweeper first woke, and
\* has left the other key, also past its deadline, in the store
C40_Witness ==
    \E c \in Conns :
        /\ sess[c].nExec = 1
        /\ sess[c].lastCmd = <<GET, K>>
        /\ sess[c].lastRes = RNone
        /\ now < SLEEP_SECONDS * TicksPerSec
        /\ K \notin DOMAIN data
        /\ \E x \in DOMAIN data :
              HasDeadline(data, x) /\ The(data[x].expiry_at) <= IntTime(now)

====
